---- MODULE Spec2Model ----
(***************************************************************************)
(* The AIP policy engine (proxy/pkg/policy/engine.go): Engine.Load         *)
(* compiles a policy document into allowedSet and toolRules, and           *)
(* Engine.IsAllowed decides a tool call against them.                      *)
(*                                                                         *)
(* Strings the code inspects character by character (tool names, argument  *)
(* values, patterns) are sequences of one-character strings, so that       *)
(* strings.TrimSpace, strings.ToLower, fmt.Sprintf and the regexp match    *)
(* are computed rather than assumed.  Argument names and metadata names    *)
(* are only ever compared for equality and stay TLA+ strings.              *)
(***************************************************************************)
EXTENDS Integers, Sequences, FiniteSets, TLC

\* ------------------------------------------------------------------------
\* Bounds of the model
\* ------------------------------------------------------------------------

\* Longest spec.tool_rules list of a document.
MaxRules == 2

\* Longest spec.tool_rules list of a document loaded while calls of
\* IsAllowed are in flight.
MaxConcRules == 1

\* ------------------------------------------------------------------------
\* Strings
\* ------------------------------------------------------------------------

Range(s) == {s[i] : i \in 1..Len(s)}

\* The white space strings.TrimSpace removes (of the characters used here).
IsSpace(c) == c \in {" ", "\t"}

\* unicode.ToLower on one character.
LowerChar(c) ==
    CASE c = "A" -> "a"
      [] c = "B" -> "b"
      [] c = "C" -> "c"
      [] OTHER   -> c

ToLower(s) == [i \in 1..Len(s) |-> LowerChar(s[i])]

RECURSIVE TrimLeft(_)
TrimLeft(s) ==
    IF s # <<>> /\ IsSpace(Head(s)) THEN TrimLeft(Tail(s)) ELSE s

RECURSIVE TrimRight(_)
TrimRight(s) ==
    IF s # <<>> /\ IsSpace(s[Len(s)])
    THEN TrimRight(SubSeq(s, 1, Len(s) - 1))
    ELSE s

TrimSpace(s) == TrimRight(TrimLeft(s))

\* Normalize without the case fold.
NormalizeNoFold(s) == TrimSpace(s)

\* normalized := strings.ToLower(strings.TrimSpace(tool))
Normalize(s) == ToLower(TrimSpace(s))

\* ------------------------------------------------------------------------
\* Patterns: the fragment of RE2 syntax the policies here use.  A pattern is
\* an optional ^, a body of literal characters and . wildcards, and an
\* optional $.  An opening [ or ( that is never closed does not compile.
\* ------------------------------------------------------------------------

\* regexp.Compile fails: an unclosed bracket or group.
CompileFails(p) == \E i \in 1..Len(p) : p[i] \in {"[", "("}

\* regexp.Compile on a pattern that compiles: the parsed program.
Compile(p) ==
    LET start == p # <<>> /\ p[1] = "^"
        rest  == IF start THEN Tail(p) ELSE p
        end   == rest # <<>> /\ rest[Len(rest)] = "$"
        body  == IF end THEN SubSeq(rest, 1, Len(rest) - 1) ELSE rest
    IN  [start |-> start, body |-> body, end |-> end]

\* The body of re matches s at position i.
MatchesAt(re, s, i) ==
    /\ i + Len(re.body) - 1 <= Len(s)
    /\ \A k \in 1..Len(re.body) :
          re.body[k] = "." \/ re.body[k] = s[i + k - 1]

\* MatchString requiring the match to span the whole text.
MatchStringAnchored(re, s) ==
    /\ Len(re.body) = Len(s)
    /\ MatchesAt(re, s, 1)

\* (*regexp.Regexp).MatchString: an unanchored search for a match.
MatchString(re, s) ==
    \E i \in 1..(Len(s) + 1) :
        /\ re.start => i = 1
        /\ re.end => i + Len(re.body) - 1 = Len(s)
        /\ MatchesAt(re, s, i)

\* ------------------------------------------------------------------------
\* Argument values (map[string]any) and their text form
\* ------------------------------------------------------------------------

StrVal(s)   == [kind |-> "string", str |-> s, n |-> 0, b |-> FALSE]
IntVal(n)   == [kind |-> "int", str |-> <<>>, n |-> n, b |-> FALSE]
BoolVal(b)  == [kind |-> "bool", str |-> <<>>, n |-> 0, b |-> b]
\* A float64 with an integral value n below 1e21, and one with the fraction
\* digits str after the whole part n (no trailing zero).
FloatVal(n, frac) == [kind |-> "float64", str |-> frac, n |-> n, b |-> FALSE]
NilVal      == [kind |-> "nil", str |-> <<>>, n |-> 0, b |-> FALSE]

DigitChar(d) ==
    CASE d = 0 -> "0" [] d = 1 -> "1" [] d = 2 -> "2" [] d = 3 -> "3"
      [] d = 4 -> "4" [] d = 5 -> "5" [] d = 6 -> "6" [] d = 7 -> "7"
      [] d = 8 -> "8" [] d = 9 -> "9"

RECURSIVE NatDigits(_)
NatDigits(n) ==
    IF n < 10 THEN <<DigitChar(n)>>
    ELSE Append(NatDigits(n \div 10), DigitChar(n % 10))

\* fmt.Sprintf("%d", n)
Decimal(n) == IF n < 0 THEN <<"-">> \o NatDigits(-n) ELSE NatDigits(n)

\* argToString printing a float64 with %.1f.
argToStringFixed(v) ==
    CASE v.kind = "string"  -> v.str
      [] v.kind = "float64" ->
            IF v.str = <<>> THEN Decimal(v.n) \o <<".", "0">>
            ELSE Decimal(v.n) \o <<".">> \o SubSeq(v.str, 1, 1)
      [] v.kind = "int"     -> Decimal(v.n)
      [] v.kind = "bool"    ->
            IF v.b THEN <<"t", "r", "u", "e">>
            ELSE <<"f", "a", "l", "s", "e">>
      [] OTHER              -> <<"<", "n", "i", "l", ">">>

\* func argToString(v any) string
argToString(v) ==
    CASE v.kind = "string"  -> v.str
      [] v.kind = "float64" ->
            IF v.str = <<>> THEN Decimal(v.n)
            ELSE Decimal(v.n) \o <<".">> \o v.str
      [] v.kind = "int"     -> Decimal(v.n)
      [] v.kind = "bool"    ->
            IF v.b THEN <<"t", "r", "u", "e">>
            ELSE <<"f", "a", "l", "s", "e">>
      [] OTHER              -> <<"<", "n", "i", "l", ">">>

\* ------------------------------------------------------------------------
\* Policy documents (AgentPolicy, PolicySpec, ToolRule)
\* ------------------------------------------------------------------------

\* Argument names a ToolRule may constrain.
ArgNames == {"x", "y"}

\* Pattern strings of the documents: ^a, b$, $ (which matches every text,
\* the empty one too), and [a, which does not compile.
P_startA == <<"^", "a">>
P_endB   == <<"b", "$">>
P_end    == <<"$">>
P_badSet == <<"[", "a">>

\* The ToolRule entries of the documents, before Load compiles them:
\*   "a"   with x: ^a and y: $,
\*   " A"  with no allow_args,
\*   "B"   with y: b$,
\*   "b\t" with x: ^a and y: a pattern that does not compile.
RuleChoices ==
    { [Tool |-> <<"a">>,
       AllowArgs |-> [a \in {"x", "y"} |-> IF a = "x" THEN P_startA ELSE P_end]],
      [Tool |-> <<" ", "A">>, AllowArgs |-> <<>>],
      [Tool |-> <<"B">>, AllowArgs |-> [a \in {"y"} |-> P_endB]],
      [Tool |-> <<"b", "\t">>,
       AllowArgs |-> [a \in {"x", "y"} |-> IF a = "x" THEN P_startA ELSE P_badSet]] }

\* The allowed_tools lists of the documents: none, and " A".
AllowedChoices == { <<>>, << <<" ", "A">> >> }

SeqsUpTo(S, n) == UNION { [1..k -> S] : k \in 0..n }

\* The tool_rules lists of the documents: up to MaxRules entries, no entry
\* written twice.
RuleLists ==
    { s \in SeqsUpTo(RuleChoices, MaxRules) :
        \A i, j \in 1..Len(s) : i # j => s[i] # s[j] }

\* The documents that pass the required-field checks: type AgentPolicy struct.
GoodHeaderDocs ==
    { [parses |-> TRUE, apiVersion |-> "aip.io/v1alpha1", kind |-> "AgentPolicy",
       name |-> "p", allowed_tools |-> at, tool_rules |-> tr,
       denied_tools |-> <<>>] :
        at \in AllowedChoices, tr \in RuleLists }

\* A document with allowed_tools and a tool rule, to give a bad header.
SampleDoc ==
    [parses |-> TRUE, apiVersion |-> "aip.io/v1alpha1", kind |-> "AgentPolicy",
     name |-> "p", allowed_tools |-> << <<"c">> >>,
     tool_rules |-> << [Tool |-> <<"b">>, AllowArgs |-> [a \in {"y"} |-> P_endB]] >>,
     denied_tools |-> <<>>]

\* Documents that parse and fail a required-field check.
BadHeaderDocs ==
    { [SampleDoc EXCEPT !.apiVersion = ""],
      [SampleDoc EXCEPT !.kind = "Policy"],
      [SampleDoc EXCEPT !.kind = "agentpolicy"],
      [SampleDoc EXCEPT !.kind = ""],
      [SampleDoc EXCEPT !.apiVersion = "", !.kind = "Policy"] }

\* A document yaml.Unmarshal rejects.
MalformedDoc ==
    [parses |-> FALSE, apiVersion |-> "", kind |-> "", name |-> "",
     allowed_tools |-> <<>>, tool_rules |-> <<>>, denied_tools |-> <<>>]

\* The documents handed to Load.
Docs == GoodHeaderDocs \cup BadHeaderDocs \cup {MalformedDoc}

\* ------------------------------------------------------------------------
\* The engine: type Engine struct { policy, allowedSet, toolRules }
\* ------------------------------------------------------------------------

\* A Go map used as a set is nil or made; a lookup in a nil map finds nothing.
NilSet       == [nil |-> TRUE, elems |-> {}]
MakeSet      == [nil |-> FALSE, elems |-> {}]
SetAdd(m, k) == [m EXCEPT !.elems = @ \cup {k}]
SetHas(m, k) == k \in m.elems

\* A map[string]V is a function; m[k] = v assigns one key.
MapPut(m, k, v) == [j \in (DOMAIN m) \cup {k} |-> IF j = k THEN v ELSE m[j]]

\* A pointer is <<>> (nil) or <<the value it points to>>.
NilPtr == <<>>

\* func NewEngine() *Engine
NewEngine ==
    [policy |-> NilPtr, allowedSet |-> MakeSet, toolRules |-> <<>>]

\* The error a Load returns; NoErr is nil.
NoErr == [kind |-> "nil", tool |-> <<>>, arg |-> ""]
YamlErr == [kind |-> "yaml", tool |-> <<>>, arg |-> ""]
FieldErr(f) == [kind |-> f, tool |-> <<>>, arg |-> ""]
RegexErr(t, a) == [kind |-> "regex", tool |-> t, arg |-> a]

\* The orders in which a range over a map of argument names may run.
Orders ==
    { o \in [1..Cardinality(ArgNames) -> ArgNames] : Range(o) = ArgNames }

\* CompileArgs leaving out a pattern that does not compile.
RECURSIVE CompileArgsSkipBad(_, _, _)
CompileArgsSkipBad(rule, o, acc) ==
    IF o = <<>> THEN [err |-> NoErr, compiledArgs |-> acc]
    ELSE LET a == Head(o) IN
         IF a \notin DOMAIN rule.AllowArgs \/ CompileFails(rule.AllowArgs[a])
         THEN CompileArgsSkipBad(rule, Tail(o), acc)
         ELSE CompileArgsSkipBad(rule, Tail(o),
                                 MapPut(acc, a, Compile(rule.AllowArgs[a])))

\* for argName, pattern := range rule.AllowArgs { regexp.Compile ... }, the
\* keys taken in the order o; acc is rule.compiledArgs so far.
RECURSIVE CompileArgs(_, _, _)
CompileArgs(rule, o, acc) ==
    IF o = <<>> THEN [err |-> NoErr, compiledArgs |-> acc]
    ELSE LET a == Head(o) IN
         IF a \notin DOMAIN rule.AllowArgs
         THEN CompileArgs(rule, Tail(o), acc)
         ELSE IF CompileFails(rule.AllowArgs[a])
         THEN [err |-> RegexErr(rule.Tool, a), compiledArgs |-> acc]
         ELSE CompileArgs(rule, Tail(o),
                          MapPut(acc, a, Compile(rule.AllowArgs[a])))

\* The rule as Load stores it: its fields and its compiledArgs.
Compiled(rule, compiledArgs) ==
    [Tool |-> rule.Tool, AllowArgs |-> rule.AllowArgs,
     compiledArgs |-> compiledArgs]

\* The allowed set after the loop over policy.Spec.AllowedTools.
RECURSIVE AddAllowed(_, _)
AddAllowed(m, tools) ==
    IF tools = <<>> THEN m
    ELSE AddAllowed(SetAdd(m, Normalize(Head(tools))), Tail(tools))

\* InstallRule without the implicit grant of line 202.
InstallRuleNoGrant(e, rule, compiledArgs) ==
    [e EXCEPT !.toolRules =
        MapPut(@, Normalize(rule.Tool), Compiled(rule, compiledArgs))]

\* InstallRule leaving a rule the tool already has in place.
InstallRuleKeepFirst(e, rule, compiledArgs) ==
    [e EXCEPT !.toolRules =
                  IF Normalize(rule.Tool) \in DOMAIN @ THEN @
                  ELSE MapPut(@, Normalize(rule.Tool), Compiled(rule, compiledArgs)),
              !.allowedSet = SetAdd(@, Normalize(rule.Tool))]

\* e.toolRules[normalized] = rule; e.allowedSet[normalized] = struct{}{}
InstallRule(e, rule, compiledArgs) ==
    [e EXCEPT !.toolRules =
                  MapPut(@, Normalize(rule.Tool), Compiled(rule, compiledArgs)),
              !.allowedSet = SetAdd(@, Normalize(rule.Tool))]

\* for i := range policy.Spec.ToolRules, from rule i on.
RECURSIVE LoadRules(_, _, _, _)
LoadRules(e, rules, i, o) ==
    IF i > Len(rules) THEN [e |-> e, err |-> NoErr]
    ELSE LET c == CompileArgs(rules[i], o, <<>>) IN
         IF c.err # NoErr THEN [e |-> e, err |-> c.err]
         ELSE LoadRules(InstallRule(e, rules[i], c.compiledArgs),
                        rules, i + 1, o)

\* Load checking the required fields after the maps are built.
LoadValidatesLate(e, D, o) ==
    IF ~D.parses THEN [e |-> e, err |-> YamlErr]
    ELSE LET e1 == [e EXCEPT !.allowedSet = AddAllowed(MakeSet, D.allowed_tools)]
             e2 == [e1 EXCEPT !.toolRules = <<>>]
             r  == LoadRules(e2, D.tool_rules, 1, o)
         IN  IF r.err # NoErr THEN r
             ELSE IF D.apiVersion = "" THEN [e |-> r.e, err |-> FieldErr("apiVersion")]
             ELSE IF D.kind # "AgentPolicy" THEN [e |-> r.e, err |-> FieldErr("kind")]
             ELSE [e |-> [r.e EXCEPT !.policy = <<D>>], err |-> NoErr]

\* Load with line 184 lost: the rules join those already there.
LoadKeepsRules(e, D, o) ==
    IF ~D.parses THEN [e |-> e, err |-> YamlErr]
    ELSE IF D.apiVersion = "" THEN [e |-> e, err |-> FieldErr("apiVersion")]
    ELSE IF D.kind # "AgentPolicy" THEN [e |-> e, err |-> FieldErr("kind")]
    ELSE LET e1 == [e EXCEPT !.allowedSet = AddAllowed(MakeSet, D.allowed_tools)]
             r  == LoadRules(e1, D.tool_rules, 1, o)
         IN  IF r.err # NoErr THEN r
             ELSE [e |-> [r.e EXCEPT !.policy = <<D>>], err |-> NoErr]

\* Load building on the maps of the policy the engine holds, when it holds
\* one.
LoadMergesOnReload(e, D, o) ==
    IF ~D.parses THEN [e |-> e, err |-> YamlErr]
    ELSE IF D.apiVersion = "" THEN [e |-> e, err |-> FieldErr("apiVersion")]
    ELSE IF D.kind # "AgentPolicy" THEN [e |-> e, err |-> FieldErr("kind")]
    ELSE LET held == e.policy # NilPtr
             e1 == [e EXCEPT !.allowedSet =
                        AddAllowed(IF held THEN @ ELSE MakeSet, D.allowed_tools)]
             e2 == [e1 EXCEPT !.toolRules = IF held THEN @ ELSE <<>>]
             r  == LoadRules(e2, D.tool_rules, 1, o)
         IN  IF r.err # NoErr THEN r
             ELSE [e |-> [r.e EXCEPT !.policy = <<D>>], err |-> NoErr]

\* Load with line 177 lost: the allowed tools join those already there.
LoadKeepsAllowed(e, D, o) ==
    IF ~D.parses THEN [e |-> e, err |-> YamlErr]
    ELSE IF D.apiVersion = "" THEN [e |-> e, err |-> FieldErr("apiVersion")]
    ELSE IF D.kind # "AgentPolicy" THEN [e |-> e, err |-> FieldErr("kind")]
    ELSE LET e1 == [e EXCEPT !.allowedSet = AddAllowed(@, D.allowed_tools)]
             e2 == [e1 EXCEPT !.toolRules = <<>>]
             r  == LoadRules(e2, D.tool_rules, 1, o)
         IN  IF r.err # NoErr THEN r
             ELSE [e |-> [r.e EXCEPT !.policy = <<D>>], err |-> NoErr]

\* Load with the allowed set built after the rules instead of before them.
LoadAllowedLast(e, D, o) ==
    IF ~D.parses THEN [e |-> e, err |-> YamlErr]
    ELSE IF D.apiVersion = "" THEN [e |-> e, err |-> FieldErr("apiVersion")]
    ELSE IF D.kind # "AgentPolicy" THEN [e |-> e, err |-> FieldErr("kind")]
    ELSE LET e2 == [e EXCEPT !.toolRules = <<>>]
             r  == LoadRules(e2, D.tool_rules, 1, o)
             e3 == [r.e EXCEPT !.allowedSet = AddAllowed(MakeSet, D.allowed_tools)]
         IN  IF r.err # NoErr THEN [e |-> e3, err |-> r.err]
             ELSE [e |-> [e3 EXCEPT !.policy = <<D>>], err |-> NoErr]

\* func (e *Engine) Load(data []byte) error: the engine it leaves and the
\* error it returns.
Load(e, D, o) ==
    IF ~D.parses THEN [e |-> e, err |-> YamlErr]
    ELSE IF D.apiVersion = "" THEN [e |-> e, err |-> FieldErr("apiVersion")]
    ELSE IF D.kind # "AgentPolicy" THEN [e |-> e, err |-> FieldErr("kind")]
    ELSE LET e1 == [e EXCEPT !.allowedSet = AddAllowed(MakeSet, D.allowed_tools)]
             e2 == [e1 EXCEPT !.toolRules = <<>>]
             r  == LoadRules(e2, D.tool_rules, 1, o)
         IN  IF r.err # NoErr THEN r
             ELSE [e |-> [r.e EXCEPT !.policy = <<D>>], err |-> NoErr]

\* ------------------------------------------------------------------------
\* The decision
\* ------------------------------------------------------------------------

\* type ValidationResult struct
Allow == [Allowed |-> TRUE, FailedArg |-> "", FailedRule |-> <<>>]
Deny  == [Allowed |-> FALSE, FailedArg |-> "", FailedRule |-> <<>>]
DenyArg(a, p) == [Allowed |-> FALSE, FailedArg |-> a, FailedRule |-> p]

\* CheckArgs returning after the first constrained argument it looks at.
RECURSIVE CheckArgsFirstOnly(_, _, _)
CheckArgsFirstOnly(rule, args, o) ==
    IF o = <<>> THEN Allow
    ELSE LET a == Head(o) IN
         IF a \notin DOMAIN rule.compiledArgs
         THEN CheckArgsFirstOnly(rule, args, Tail(o))
         ELSE IF a \notin DOMAIN args THEN DenyArg(a, rule.AllowArgs[a])
         ELSE IF ~MatchString(rule.compiledArgs[a], argToString(args[a]))
         THEN DenyArg(a, rule.AllowArgs[a])
         ELSE Allow

\* CheckArgs reporting, for a failing argument, the argument its loop took
\* first; first is "" until one is taken.
RECURSIVE CheckArgsNamesFirst(_, _, _, _)
CheckArgsNamesFirst(rule, args, o, first) ==
    IF o = <<>> THEN Allow
    ELSE LET a == Head(o)
             f == IF first = "" THEN a ELSE first
         IN
         IF a \notin DOMAIN rule.compiledArgs
         THEN CheckArgsNamesFirst(rule, args, Tail(o), first)
         ELSE IF a \notin DOMAIN args THEN DenyArg(f, rule.AllowArgs[f])
         ELSE IF ~MatchString(rule.compiledArgs[a], argToString(args[a]))
         THEN DenyArg(f, rule.AllowArgs[f])
         ELSE CheckArgsNamesFirst(rule, args, Tail(o), f)

CheckArgsReportsFirst(rule, args, o) == CheckArgsNamesFirst(rule, args, o, "")

\* CheckArgs returning the outcome of the argument its loop takes last.
RECURSIVE CheckArgsLastDecides(_, _, _)
CheckArgsLastDecides(rule, args, o) ==
    IF o = <<>> THEN Allow
    ELSE LET a == Head(o)
             rest == CheckArgsLastDecides(rule, args, Tail(o))
             here == IF a \notin DOMAIN args THEN DenyArg(a, rule.AllowArgs[a])
                     ELSE IF ~MatchString(rule.compiledArgs[a], argToString(args[a]))
                     THEN DenyArg(a, rule.AllowArgs[a])
                     ELSE Allow
         IN
         IF a \notin DOMAIN rule.compiledArgs THEN rest
         ELSE IF \A k \in 1..Len(Tail(o)) : Tail(o)[k] \notin DOMAIN rule.compiledArgs
         THEN here
         ELSE rest

\* CheckArgs matching an absent argument as the empty text.
RECURSIVE CheckArgsAbsentAsEmpty(_, _, _)
CheckArgsAbsentAsEmpty(rule, args, o) ==
    IF o = <<>> THEN Allow
    ELSE LET a == Head(o)
             text == IF a \in DOMAIN args THEN argToString(args[a]) ELSE <<>>
         IN
         IF a \notin DOMAIN rule.compiledArgs
         THEN CheckArgsAbsentAsEmpty(rule, args, Tail(o))
         ELSE IF ~MatchString(rule.compiledArgs[a], text)
         THEN DenyArg(a, rule.AllowArgs[a])
         ELSE CheckArgsAbsentAsEmpty(rule, args, Tail(o))

\* for argName, compiledRegex := range rule.compiledArgs, the keys taken in
\* the order o.
RECURSIVE CheckArgs(_, _, _)
CheckArgs(rule, args, o) ==
    IF o = <<>> THEN Allow
    ELSE LET a == Head(o) IN
         IF a \notin DOMAIN rule.compiledArgs THEN CheckArgs(rule, args, Tail(o))
         ELSE IF a \notin DOMAIN args THEN DenyArg(a, rule.AllowArgs[a])
         ELSE IF ~MatchString(rule.compiledArgs[a], argToString(args[a]))
         THEN DenyArg(a, rule.AllowArgs[a])
         ELSE CheckArgs(rule, args, Tail(o))

\* CheckRule denying a tool that has no rule.
CheckRuleDenyNoRule(tr, normalized, args, o) ==
    IF normalized \notin DOMAIN tr THEN Deny
    ELSE IF DOMAIN tr[normalized].compiledArgs = {} THEN Allow
    ELSE CheckArgs(tr[normalized], args, o)

\* What a call that dereferences a nil pointer ends in instead of a
\* ValidationResult.
Panic == [panic |-> "nil pointer dereference"]

\* CheckRule reading rule.compiledArgs without looking at hasRule.
CheckRuleDerefsNil(tr, normalized, args, o) ==
    IF normalized \notin DOMAIN tr THEN Panic
    ELSE IF DOMAIN tr[normalized].compiledArgs = {} THEN Allow
    ELSE CheckArgs(tr[normalized], args, o)

\* CheckRule denying a call that carries an argument the rule does not
\* constrain.
CheckRuleStrict(tr, normalized, args, o) ==
    IF normalized \notin DOMAIN tr \/ DOMAIN tr[normalized].compiledArgs = {}
    THEN Allow
    ELSE IF \E k \in DOMAIN args : k \notin DOMAIN tr[normalized].compiledArgs
    THEN Deny
    ELSE CheckArgs(tr[normalized], args, o)

\* Steps 2 and 3 of IsAllowed, on the rule mapping tr.
CheckRule(tr, normalized, args, o) ==
    IF normalized \notin DOMAIN tr \/ DOMAIN tr[normalized].compiledArgs = {}
    THEN Allow
    ELSE CheckArgs(tr[normalized], args, o)

\* IsAllowed denying the tools the stored policy lists in denied_tools.
IsAllowedDenyWins(e, toolName, args, o) ==
    IF e.allowedSet.nil THEN Deny
    ELSE LET normalized == Normalize(toolName) IN
         IF ~SetHas(e.allowedSet, normalized) THEN Deny
         ELSE IF /\ e.policy # NilPtr
                 /\ \E i \in 1..Len(e.policy[1].denied_tools) :
                       Normalize(e.policy[1].denied_tools[i]) = normalized
         THEN Deny
         ELSE CheckRule(e.toolRules, normalized, args, o)

\* IsAllowed allowing at once the tools the stored policy lists in
\* allowed_tools.
IsAllowedListedSkipsRule(e, toolName, args, o) ==
    IF e.allowedSet.nil THEN Deny
    ELSE LET normalized == Normalize(toolName) IN
         IF ~SetHas(e.allowedSet, normalized) THEN Deny
         ELSE IF /\ e.policy # NilPtr
                 /\ \E i \in 1..Len(e.policy[1].allowed_tools) :
                       Normalize(e.policy[1].allowed_tools[i]) = normalized
         THEN Allow
         ELSE CheckRule(e.toolRules, normalized, args, o)

\* func (e *Engine) IsAllowed(toolName string, args map[string]any)
IsAllowed(e, toolName, args, o) ==
    IF e.allowedSet.nil THEN Deny
    ELSE LET normalized == Normalize(toolName) IN
         IF ~SetHas(e.allowedSet, normalized) THEN Deny
         ELSE CheckRule(e.toolRules, normalized, args, o)

\* func (e *Engine) GetPolicyName() string
GetPolicyName(e) ==
    IF e.policy = NilPtr THEN "<no policy>" ELSE e.policy[1].name

\* GetAllowedTools returning e.policy.Spec.AllowedTools itself.
GetAllowedToolsNoCopy(e) ==
    IF e.policy = NilPtr THEN [nil |-> TRUE, shared |-> FALSE, elems |-> <<>>]
    ELSE [nil |-> FALSE, shared |-> TRUE, elems |-> e.policy[1].allowed_tools]

\* func (e *Engine) GetAllowedTools() []string.  A slice is nil or not, has
\* its elements, and shares its array with e.policy.Spec.AllowedTools or
\* not: make and copy give it an array of its own.
GetAllowedTools(e) ==
    IF e.policy = NilPtr THEN [nil |-> TRUE, shared |-> FALSE, elems |-> <<>>]
    ELSE [nil |-> FALSE, shared |-> FALSE, elems |-> e.policy[1].allowed_tools]

\* ------------------------------------------------------------------------
\* The calls made on the engine
\* ------------------------------------------------------------------------

\* Tool names a caller asks about: "a", "A ", "b", "c" and " ".
QueryTools == { <<"a">>, <<"A", " ">>, <<"b">>, <<"c">>, <<" ">> }

\* Argument names a caller supplies: the constrained ones and one more.
ArgKeys == ArgNames \cup {"z"}

\* Argument values a caller supplies: "ab" and "ba".
ArgValues == { StrVal(<<"a", "b">>), StrVal(<<"b", "a">>) }

\* The argument maps; a nil map and an empty map are both <<>>.  The
\* unconstrained argument z is absent or "ab".
ArgMaps ==
    UNION { { f \in [K -> ArgValues] : "z" \in K => f["z"] = StrVal(<<"a", "b">>) } :
            K \in SUBSET ArgKeys }

VARIABLES
    policy,      \* e.policy: NilPtr or <<the AgentPolicy>>
    allowedSet,  \* e.allowedSet
    toolRules,   \* e.toolRules
    op,          \* the last call that returned: "NewEngine", "Load", "IsAllowed"
    err,         \* what the last Load returned
    result,      \* what the last call returned, if it was IsAllowed
    loaded,      \* NilPtr, or <<the document of the last Load that returned nil>>
    lpc,         \* where the Load in progress stands ("idle": none)
    ldoc,        \* the document of the Load in progress
    li,          \* its loop index
    pre,         \* the engine as the Load in progress found it
    rpc,         \* where the IsAllowed in progress stands ("idle": none)
    rcall,       \* its toolName and args
    rret         \* the ValidationResult it is about to return

engineVars == <<policy, allowedSet, toolRules>>
loaderVars == <<lpc, ldoc, li, pre>>
readerVars == <<rpc, rcall, rret>>
vars == <<policy, allowedSet, toolRules, op, err, result, loaded,
          lpc, ldoc, li, pre, rpc, rcall, rret>>

\* The engine the variables hold.
Engine == [policy |-> policy, allowedSet |-> allowedSet, toolRules |-> toolRules]

NoCall == [tool |-> <<>>, args |-> <<>>]

Init ==
    /\ policy = NewEngine.policy
    /\ allowedSet = NewEngine.allowedSet
    /\ toolRules = NewEngine.toolRules
    /\ op = "NewEngine"
    /\ err = NoErr
    /\ result = Deny
    /\ loaded = NilPtr
    /\ lpc = "idle"
    /\ ldoc = MalformedDoc
    /\ li = 0
    /\ pre = NewEngine
    /\ rpc = "idle"
    /\ rcall = NoCall
    /\ rret = Deny

\* A call of Load on a document of docs, from start to return, with no other
\* call in progress.
LoadCall(docs) ==
    \E doc \in docs :
      \E r \in { Load(Engine, doc, o) : o \in Orders } :
        /\ policy' = r.e.policy
        /\ allowedSet' = r.e.allowedSet
        /\ toolRules' = r.e.toolRules
        /\ op' = "Load"
        /\ err' = r.err
        /\ loaded' = IF r.err = NoErr THEN <<doc>> ELSE loaded
        /\ result' = Deny
        /\ UNCHANGED <<loaderVars, readerVars>>

\* A call of IsAllowed(toolName, args) from start to return, with no other
\* call in progress.
DoIsAllowed ==
    \E t \in QueryTools, args \in ArgMaps :
      \E res \in { IsAllowed(Engine, t, args, o) : o \in Orders } :
        /\ result' = res
        /\ op' = "IsAllowed"
        /\ UNCHANGED <<engineVars, err, loaded, loaderVars, readerVars>>

DoLoad == LoadCall(Docs)

Next == DoLoad \/ DoIsAllowed

\* The calls made one after another.
Spec == Init /\ [][Next]_vars

\* ------------------------------------------------------------------------
\* One Load running while calls of IsAllowed are in flight.  Load and
\* IsAllowed take no lock, so each access of a field of the engine is a step
\* of its own; what a call computes on its own locals joins the step before.
\* ------------------------------------------------------------------------

\* The documents loaded here.
ConcDocs ==
    { doc \in Docs : Len(doc.tool_rules) <= MaxConcRules }

\* The argument maps asked about here: those of x and y.
ConcArgMaps == { args \in ArgMaps : "z" \notin DOMAIN args }

\* The load at startup, before any other call is made.
CStartup ==
    /\ op = "NewEngine"
    /\ lpc = "idle"
    /\ rpc = "idle"
    /\ LoadCall(ConcDocs)

\* Load, lines 162-173: parse and validate, on locals.
LBegin ==
    /\ lpc = "idle"
    /\ rpc # "fatal"
    /\ \E doc \in ConcDocs :
        LET bad == Load(NewEngine, [doc EXCEPT !.allowed_tools = <<>>,
                                               !.tool_rules = <<>>], Orders[1]).err
        IN
        /\ ldoc' = doc
        /\ pre' = Engine
        /\ li' = 0
        /\ IF bad # NoErr
           THEN /\ lpc' = "done"
                /\ err' = bad
                /\ op' = "Load"
                /\ result' = Deny
           ELSE /\ lpc' = "makeAllowed"
                /\ UNCHANGED <<err, op, result>>
        /\ UNCHANGED <<engineVars, loaded, readerVars>>

\* Load, line 177: e.allowedSet = make(...)
LMakeAllowed ==
    /\ lpc = "makeAllowed"
    /\ rpc # "fatal"
    /\ allowedSet' = MakeSet
    /\ li' = 1
    /\ lpc' = "addAllowed"
    /\ UNCHANGED <<policy, toolRules, op, err, result, loaded, ldoc, pre, readerVars>>

\* Load, line 180: e.allowedSet[normalized] = struct{}{}
LAddAllowed ==
    /\ lpc = "addAllowed"
    /\ rpc # "fatal"
    /\ li <= Len(ldoc.allowed_tools)
    /\ allowedSet' = SetAdd(allowedSet, Normalize(ldoc.allowed_tools[li]))
    /\ li' = li + 1
    /\ UNCHANGED <<policy, toolRules, op, err, result, loaded, lpc, ldoc, pre, readerVars>>

\* Load, line 184: e.toolRules = make(...)
LMakeRules ==
    /\ lpc = "addAllowed"
    /\ rpc # "fatal"
    /\ li > Len(ldoc.allowed_tools)
    /\ toolRules' = <<>>
    /\ li' = 1
    /\ lpc' = "rules"
    /\ UNCHANGED <<policy, allowedSet, op, err, result, loaded, ldoc, pre, readerVars>>

\* Load, lines 186-199: compile the rule's patterns, return the error of one
\* that does not compile, else e.toolRules[normalized] = rule
LPutRule ==
    /\ lpc = "rules"
    /\ rpc # "fatal"
    /\ li <= Len(ldoc.tool_rules)
    /\ \E c \in { CompileArgs(ldoc.tool_rules[li], o, <<>>) : o \in Orders } :
        IF c.err # NoErr
        THEN /\ lpc' = "done"
             /\ err' = c.err
             /\ op' = "Load"
             /\ result' = Deny
             /\ UNCHANGED toolRules
        ELSE /\ toolRules' = MapPut(toolRules, Normalize(ldoc.tool_rules[li].Tool),
                                    Compiled(ldoc.tool_rules[li], c.compiledArgs))
             /\ lpc' = "grant"
             /\ UNCHANGED <<err, op, result>>
    /\ UNCHANGED <<policy, allowedSet, loaded, ldoc, li, pre, readerVars>>

\* Load, line 202: e.allowedSet[normalized] = struct{}{}
LGrant ==
    /\ lpc = "grant"
    /\ rpc # "fatal"
    /\ allowedSet' = SetAdd(allowedSet, Normalize(ldoc.tool_rules[li].Tool))
    /\ li' = li + 1
    /\ lpc' = "rules"
    /\ UNCHANGED <<policy, toolRules, op, err, result, loaded, ldoc, pre, readerVars>>

\* Load, lines 205-206: e.policy = &policy; return nil
LSetPolicy ==
    /\ lpc = "rules"
    /\ rpc # "fatal"
    /\ li > Len(ldoc.tool_rules)
    /\ policy' = <<ldoc>>
    /\ loaded' = <<ldoc>>
    /\ err' = NoErr
    /\ op' = "Load"
    /\ result' = Deny
    /\ lpc' = "done"
    /\ UNCHANGED <<allowedSet, toolRules, ldoc, li, pre, readerVars>>

\* The Load in progress is about to write the map e.allowedSet holds.
WritingAllowed ==
    \/ lpc = "addAllowed" /\ li <= Len(ldoc.allowed_tools)
    \/ lpc = "grant"

\* The Load in progress is about to write the map e.toolRules holds.
WritingRules ==
    lpc = "rules" /\ li <= Len(ldoc.tool_rules)

\* IsAllowed, lines 249-260: the nil check and the lookup in e.allowedSet.
RCheckAllowed ==
    /\ rpc = "idle"
    /\ \E t \in QueryTools, args \in ConcArgMaps :
        /\ rcall' = [tool |-> t, args |-> args]
        /\ IF allowedSet.nil \/ ~SetHas(allowedSet, Normalize(t))
           THEN rpc' = "returning" /\ rret' = Deny
           ELSE rpc' = "allowed" /\ UNCHANGED rret
    /\ UNCHANGED <<engineVars, op, err, result, loaded, loaderVars>>

\* RCheckRule taking the rule it has checked out of e.toolRules.
RCheckRuleConsumes ==
    /\ rpc = "allowed"
    /\ \E res \in { CheckRule(toolRules, Normalize(rcall.tool), rcall.args, o) :
                    o \in Orders } :
        rret' = res
    /\ rpc' = "returning"
    /\ toolRules' = [n \in DOMAIN toolRules \ {Normalize(rcall.tool)} |-> toolRules[n]]
    /\ UNCHANGED <<policy, allowedSet, op, err, result, loaded, loaderVars, rcall>>

\* IsAllowed, lines 263-296: the lookup in e.toolRules and the checks of the
\* rule it finds.
RCheckRule ==
    /\ rpc = "allowed"
    /\ \E res \in { CheckRule(toolRules, Normalize(rcall.tool), rcall.args, o) :
                    o \in Orders } :
        rret' = res
    /\ rpc' = "returning"
    /\ UNCHANGED <<engineVars, op, err, result, loaded, loaderVars, rcall>>

\* IsAllowed returns.
RReturn ==
    /\ rpc = "returning"
    /\ result' = rret
    /\ op' = "IsAllowed"
    /\ rpc' = "idle"
    /\ rcall' = NoCall
    /\ rret' = Deny
    /\ UNCHANGED <<engineVars, err, loaded, loaderVars>>

\* A map read that meets the unsynchronized write of the same map: the Go
\* runtime may end the process ("concurrent map read and map write").
RFatal ==
    /\ \/ rpc = "idle" /\ WritingAllowed
       \/ rpc = "allowed" /\ WritingRules
    /\ rpc' = "fatal"
    /\ UNCHANGED <<engineVars, op, err, result, loaded, loaderVars, rcall, rret>>

NextConc ==
    \/ CStartup
    \/ LBegin
    \/ LMakeAllowed
    \/ LAddAllowed
    \/ LMakeRules
    \/ LPutRule
    \/ LGrant
    \/ LSetPolicy
    \/ RCheckAllowed
    \/ RCheckRule
    \/ RReturn
    \/ RFatal

\* A single writer reloading once, with readers in flight.
SpecConc == Init /\ [][NextConc]_vars

\* The Load taken step by step ends as the Load taken whole does.
StepwiseLoadIsLoad ==
    lpc = "done" =>
        \E o \in Orders :
            /\ Load(pre, ldoc, o).e = Engine
            /\ Load(pre, ldoc, o).err = err

\* ------------------------------------------------------------------------
\* Documents with spec.denied_tools, loaded and asked about one call after
\* another.
\* ------------------------------------------------------------------------

\* The denied_tools lists: none, and "A" with "b ".
DeniedChoices == { <<>>, << <<"A">>, <<"b", " ">> >> }

\* The documents loaded here: those of ConcDocs, under each denied_tools.
DeniedDocs ==
    { [doc EXCEPT !.denied_tools = dt] : doc \in ConcDocs, dt \in DeniedChoices }

DeniedLoad == LoadCall(DeniedDocs)

NextDenied == DeniedLoad \/ DoIsAllowed

SpecDenied == Init /\ [][NextDenied]_vars

\* ------------------------------------------------------------------------
\* The accessors, called between loads, and a caller that writes into the
\* slice GetAllowedTools gave it.
\* ------------------------------------------------------------------------

\* The documents loaded here: those of ConcDocs, and the same under the name
\* "q" with allowed_tools "c", " A".
IntroDocs ==
    ConcDocs \cup
    { [doc EXCEPT !.name = "q", !.allowed_tools = << <<"c">>, <<" ", "A">> >>] :
        doc \in ConcDocs }

IntroLoad == LoadCall(IntroDocs)

\* A call of GetPolicyName.
DoGetPolicyName ==
    /\ result' = [Name |-> GetPolicyName(Engine)]
    /\ op' = "GetPolicyName"
    /\ UNCHANGED <<engineVars, err, loaded, loaderVars, readerVars>>

\* A call of GetAllowedTools.
DoGetAllowedTools ==
    /\ result' = [Tools |-> GetAllowedTools(Engine)]
    /\ op' = "GetAllowedTools"
    /\ UNCHANGED <<engineVars, err, loaded, loaderVars, readerVars>>

\* The caller assigns tools[i] = "x" in the slice the last GetAllowedTools
\* returned; the write lands in every slice that shares its array.
DoModifyReturned ==
    /\ op \in {"GetAllowedTools", "ModifyReturned"}
    /\ \E i \in 1..Len(result.Tools.elems) :
        LET written == [result.Tools.elems EXCEPT ![i] = <<"x">>] IN
        /\ result' = [Tools |-> [result.Tools EXCEPT !.elems = written]]
        /\ policy' = IF result.Tools.shared
                      THEN << [policy[1] EXCEPT !.allowed_tools = written] >>
                      ELSE policy
    /\ op' = "ModifyReturned"
    /\ UNCHANGED <<allowedSet, toolRules, err, loaded, loaderVars, readerVars>>

NextIntro ==
    \/ IntroLoad
    \/ DoGetPolicyName
    \/ DoGetAllowedTools
    \/ DoModifyReturned
    \/ DoIsAllowed

SpecIntro == Init /\ [][NextIntro]_vars

\* ------------------------------------------------------------------------
\* Argument values of every JSON type, matched against patterns that spell
\* out a whole text.
\* ------------------------------------------------------------------------

\* The values: "42", true, false, int 100, 0 and -7, float64 42 and 3.14,
\* and nil.
ConvValues ==
    { StrVal(<<"4", "2">>), BoolVal(TRUE), BoolVal(FALSE),
      IntVal(100), IntVal(0), IntVal(-7),
      FloatVal(42, <<>>), FloatVal(3, <<"1", "4">>), NilVal }

\* The patterns: ^42$, ^true$, ^false$, ^100$, ^-7$ and ^3.14$.
ConvPatterns ==
    { <<"^", "4", "2", "$">>, <<"^", "t", "r", "u", "e", "$">>,
      <<"^", "f", "a", "l", "s", "e", "$">>, <<"^", "1", "0", "0", "$">>,
      <<"^", "-", "7", "$">>, <<"^", "3", ".", "1", "4", "$">> }

\* The documents: one rule for the tool "c", on x or on x and y.
ConvDocs ==
    { [SampleDoc EXCEPT !.allowed_tools = <<>>,
                        !.tool_rules = << [Tool |-> <<"c">>, AllowArgs |-> aa] >>] :
        aa \in UNION { [K -> ConvPatterns] : K \in {{"x"}, {"x", "y"}} } }

\* The argument maps: x, or x and y.
ConvArgMaps == UNION { [K -> ConvValues] : K \in {{"x"}, {"x", "y"}} }

ConvLoad == LoadCall(ConvDocs)

\* A call of IsAllowed("c", args) from start to return.
ConvIsAllowed ==
    \E args \in ConvArgMaps :
      \E res \in { IsAllowed(Engine, <<"c">>, args, o) : o \in Orders } :
        /\ result' = res
        /\ op' = "IsAllowed"
        /\ UNCHANGED <<engineVars, err, loaded, loaderVars, readerVars>>

NextConv == ConvLoad \/ ConvIsAllowed

SpecConv == Init /\ [][NextConv]_vars

\* ------------------------------------------------------------------------
\* Calls whose toolName and args are kept next to what they returned, on
\* documents of one rule, with the empty tool name, a nil value and patterns
\* with and without anchors.
\* ------------------------------------------------------------------------

\* The patterns: a, ^a, a$ and ^a$.
MatchPatterns ==
    { <<"a">>, <<"^", "a">>, <<"a", "$">>, <<"^", "a", "$">> }

\* The values matched against them: "a", "bab" and "bb" (and "ab", "ba" of
\* ArgValues), and nil.
MatchValues ==
    { StrVal(<<"a">>), StrVal(<<"b", "a", "b">>), StrVal(<<"b", "b">>), NilVal }

\* The tool_rules lists: each rule alone, and "B" followed by the rule
\* whose pattern does not compile.
CallRuleLists ==
    { <<r>> : r \in RuleChoices } \cup
    { <<r1, r2>> : r1 \in { r \in RuleChoices : r.Tool = <<"B">> },
                   r2 \in { r \in RuleChoices : r.Tool = <<"b", "\t">> } }

\* The documents: those of GoodHeaderDocs that list " A" and have such a
\* list, and a rule for the tool "c" on x under each of MatchPatterns.
CallDocs ==
    { doc \in GoodHeaderDocs :
        doc.allowed_tools # <<>> /\ doc.tool_rules \in CallRuleLists } \cup
    { [SampleDoc EXCEPT !.allowed_tools = <<>>,
                        !.tool_rules = << [Tool |-> <<"c">>,
                                           AllowArgs |-> [a \in {"x"} |-> p]] >>] :
        p \in MatchPatterns }

\* The tool names asked about: those of QueryTools and the empty name.
CallTools == QueryTools \cup { <<>> }

\* The argument maps: those of ArgMaps with no argument, y alone, x alone
\* or all three, and x alone with each of MatchValues.
CallArgMaps ==
    { args \in ArgMaps : DOMAIN args \in { {}, {"x"}, {"y"}, {"x", "y", "z"} } } \cup
    [{"x"} -> MatchValues]

CallLoad == LoadCall(CallDocs)

\* A call of IsAllowed(toolName, args) from start to return; rcall keeps
\* what it was called with.
CallIsAllowed ==
    \E t \in CallTools, args \in CallArgMaps :
      \E res \in { IsAllowed(Engine, t, args, o) : o \in Orders } :
        /\ result' = res
        /\ rcall' = [tool |-> t, args |-> args]
        /\ op' = "IsAllowed"
        /\ UNCHANGED <<engineVars, err, loaded, loaderVars, rpc, rret>>

NextCall == CallLoad \/ CallIsAllowed

SpecCall == Init /\ [][NextCall]_vars

\* ------------------------------------------------------------------------
\* What the claims speak of
\* ------------------------------------------------------------------------

\* A tool name trimmed of surrounding white space and lower-cased, written
\* from the specification's words and not from the code's calls.
CanonChar(c) ==
    IF c = "A" THEN "a" ELSE IF c = "B" THEN "b" ELSE IF c = "C" THEN "c" ELSE c

Canon(s) ==
    LET inked == { i \in 1..Len(s) : s[i] \notin {" ", "\t"} } IN
    IF inked = {} THEN <<>>
    ELSE LET lo == CHOOSE i \in inked : \A j \in inked : i <= j
             hi == CHOOSE i \in inked : \A j \in inked : i >= j
         IN  [k \in 1..(hi - lo + 1) |-> CanonChar(s[lo + k - 1])]

\* The results a call of IsAllowed may return on engine e, over the orders in
\* which the range over the rule's arguments may run.
Results(e, t, args) == { IsAllowed(e, t, args, o) : o \in Orders }

\* The most recent Load returned nil; LoadedDoc is then its document.
LastLoadOk == loaded # NilPtr /\ err = NoErr
LoadedDoc == loaded[1]

\* The allowed set a document declares: its allowed_tools and the tools of
\* its tool_rules.
ListedTools(doc) == { Canon(doc.allowed_tools[i]) : i \in 1..Len(doc.allowed_tools) }
RuleTools(doc)   == { Canon(doc.tool_rules[i].Tool) : i \in 1..Len(doc.tool_rules) }
DeclaredAllowed(doc) == ListedTools(doc) \cup RuleTools(doc)

\* The ToolRule a document's last entry for tool n declares.
DeclaredRule(doc, n) ==
    LET at == { i \in 1..Len(doc.tool_rules) : Canon(doc.tool_rules[i].Tool) = n }
    IN  doc.tool_rules[CHOOSE i \in at : \A j \in at : i >= j]

\* The arguments args satisfy every pattern of allowArgs.
Satisfies(args, allowArgs) ==
    \A a \in DOMAIN allowArgs :
        /\ a \in DOMAIN args
        /\ MatchString(Compile(allowArgs[a]), argToString(args[a]))

\* ------------------------------------------------------------------------
\* Claims
\* ------------------------------------------------------------------------

\* C1: once a Load has succeeded, a later Load that returns an error leaves
\* every IsAllowed result as it was before that call.
C1_FailedReloadKeepsPolicy ==
    [][ (loaded # NilPtr /\ op' = "Load" /\ err' # NoErr)
            => \A t \in QueryTools, args \in ArgMaps :
                   Results(Engine', t, args) = Results(Engine, t, args) ]_vars

\* C2: while no Load has returned success, IsAllowed denies every tool with
\* every argument map.
C2_FailClosedUntilLoaded ==
    loaded = NilPtr =>
        \A t \in QueryTools, args \in ArgMaps :
            \A r \in Results(Engine, t, args) : ~r.Allowed

\* C3: a call of IsAllowed that returns while or after one Load(D2) runs on
\* an engine holding D1 returns what it returns under D1 alone or under D2
\* alone.
C3_AtomicReplacement ==
    (rpc = "returning" /\ lpc # "idle" /\ pre.policy # NilPtr) =>
        LET new == { Load(pre, ldoc, o) : o \in Orders } IN
        (\A r \in new : r.err = NoErr) =>
            rret \in Results(pre, rcall.tool, rcall.args)
                     \cup UNION { Results(r.e, rcall.tool, rcall.args) : r \in new }

\* C4: after a successful Load, a tool whose normalized name is not in the
\* declared allowed set is denied for every argument map, with no argument
\* detail.
C4_ToolLevelDenial ==
    LastLoadOk =>
        \A t \in QueryTools, args \in ArgMaps :
            Canon(t) \notin DeclaredAllowed(LoadedDoc)
                => Results(Engine, t, args) = {Deny}

\* An IsAllowed has returned the tool-level denial under a policy that
\* allows some tool and not every tool asked about.
C4_Witness ==
    /\ LastLoadOk
    /\ op = "IsAllowed"
    /\ result = Deny
    /\ DeclaredAllowed(LoadedDoc) # {}
    /\ \E t \in QueryTools : Canon(t) \notin DeclaredAllowed(LoadedDoc)

\* C5: for a tool whose compiled rule has at least one argument pattern,
\* IsAllowed allows exactly when every constrained argument is present and
\* its text form matches its pattern.
C5_ArgumentsDecide ==
    \A t \in QueryTools, args \in ArgMaps :
        LET n == Canon(t) IN
        (n \in DOMAIN toolRules /\ DOMAIN toolRules[n].AllowArgs # {}) =>
            \A r \in Results(Engine, t, args) :
                r.Allowed <=> Satisfies(args, toolRules[n].AllowArgs)

\* An IsAllowed has allowed a call on an engine all of whose allowed tools
\* are constrained, one of them on two arguments.
C5_Witness ==
    /\ op = "IsAllowed"
    /\ result.Allowed
    /\ \A n \in allowedSet.elems :
          n \in DOMAIN toolRules /\ DOMAIN toolRules[n].AllowArgs # {}
    /\ \E n \in DOMAIN toolRules : Cardinality(DOMAIN toolRules[n].AllowArgs) = 2
    /\ \E n \in DOMAIN toolRules, args \in ArgMaps :
          ~Satisfies(args, toolRules[n].AllowArgs)

\* C6: a constrained argument that is absent denies, even when its pattern
\* matches the empty text; when it is the only constrained argument not
\* satisfied, the result names it and its declared pattern string.
C6_ConstrainedArgsMandatory ==
    \A t \in QueryTools, args \in ArgMaps :
        LET n == Canon(t) IN
        n \in DOMAIN toolRules =>
            \A a \in DOMAIN toolRules[n].AllowArgs :
                a \notin DOMAIN args =>
                    LET others == [b \in DOMAIN toolRules[n].AllowArgs \ {a}
                                      |-> toolRules[n].AllowArgs[b]]
                    IN  \A r \in Results(Engine, t, args) :
                          /\ ~r.Allowed
                          /\ Satisfies(args, others)
                                => r = DenyArg(a, toolRules[n].AllowArgs[a])

\* An IsAllowed has denied on y, whose pattern $ matches the empty text: y
\* was absent.
C6_Witness ==
    /\ op = "IsAllowed"
    /\ result = DenyArg("y", P_end)
    /\ MatchString(Compile(P_end), <<>>)
    /\ \E n \in DOMAIN toolRules :
          toolRules[n].AllowArgs = [a \in {"x", "y"} |-> IF a = "x" THEN P_startA ELSE P_end]

\* C7: after a successful Load, a tool of the declared allowed set that has
\* no tool rule, or whose tool rule declares no argument pattern, is allowed
\* with every argument map.
C7_UnconstrainedAllowsAll ==
    LastLoadOk =>
        \A t \in QueryTools, args \in ArgMaps :
            LET n == Canon(t) IN
            (/\ n \in DeclaredAllowed(LoadedDoc)
             /\ \/ n \notin RuleTools(LoadedDoc)
                \/ DOMAIN DeclaredRule(LoadedDoc, n).AllowArgs = {})
                => Results(Engine, t, args) = {Allow}

\* An IsAllowed has allowed a call under a policy none of whose tools is
\* constrained, one tool having no rule or one having a rule without patterns.
C7_Witness ==
    /\ LastLoadOk
    /\ op = "IsAllowed"
    /\ result = Allow
    /\ DeclaredAllowed(LoadedDoc) # {}
    /\ \A n \in DeclaredAllowed(LoadedDoc) :
          \/ n \notin RuleTools(LoadedDoc)
          \/ DOMAIN DeclaredRule(LoadedDoc, n).AllowArgs = {}

\* C8: after a successful Load, a tool that appears only as the tool of a
\* tool rule, and not in allowed_tools, is allowed whenever all of its
\* constrained arguments are present and match.
C8_ImplicitGrant ==
    LastLoadOk =>
        \A t \in QueryTools, args \in ArgMaps :
            LET n == Canon(t) IN
            (/\ n \in RuleTools(LoadedDoc)
             /\ n \notin ListedTools(LoadedDoc)
             /\ Satisfies(args, DeclaredRule(LoadedDoc, n).AllowArgs))
                => Results(Engine, t, args) = {Allow}

\* An IsAllowed has allowed a call under a policy with no allowed_tools and
\* only constrained rules.
C8_Witness ==
    /\ LastLoadOk
    /\ op = "IsAllowed"
    /\ result = Allow
    /\ LoadedDoc.allowed_tools = <<>>
    /\ \A n \in RuleTools(LoadedDoc) : DOMAIN DeclaredRule(LoadedDoc, n).AllowArgs # {}
    /\ RuleTools(LoadedDoc) # {}

\* C9: between calls, every key of toolRules is a member of allowedSet.
C9_RuleKeysAllowed ==
    DOMAIN toolRules \subseteq allowedSet.elems

\* A reload has failed after installing a rule, and allowedSet holds more
\* than the keys of toolRules.
C9_Witness ==
    /\ op = "Load"
    /\ err # NoErr
    /\ loaded # NilPtr
    /\ DOMAIN toolRules # {}
    /\ DOMAIN toolRules # allowedSet.elems

\* C10: tool names equal after trimming and lower-casing get the same
\* results for every argument map, and a name declared in allowed_tools or
\* as a rule's tool passes the tool-level check under every spelling that
\* normalizes to it, a rule's tool being constrained by that rule under every
\* such spelling.
C10_ToolNameNormalization ==
    /\ \A t1, t2 \in QueryTools :
          (t1 # t2 /\ Canon(t1) = Canon(t2)) =>
              \A args \in ArgMaps :
                  Results(Engine, t1, args) = Results(Engine, t2, args)
    /\ LastLoadOk =>
          \A t \in QueryTools, args \in ArgMaps :
              LET n == Canon(t) IN
              /\ n \in DeclaredAllowed(LoadedDoc)
                    => Deny \notin Results(Engine, t, args)
              /\ n \in RuleTools(LoadedDoc) =>
                    \A r \in Results(Engine, t, args) :
                        r.Allowed <=>
                            Satisfies(args, DeclaredRule(LoadedDoc, n).AllowArgs)

\* An IsAllowed has allowed a call under a policy whose only tool is listed
\* with a spelling that is not its normalized one, and two spellings asked
\* about normalize to it.
C10_Witness ==
    /\ LastLoadOk
    /\ op = "IsAllowed"
    /\ result.Allowed
    /\ RuleTools(LoadedDoc) = {}
    /\ \E i \in 1..Len(LoadedDoc.allowed_tools) :
          LoadedDoc.allowed_tools[i] # Canon(LoadedDoc.allowed_tools[i])
    /\ \E t1, t2 \in QueryTools :
          t1 # t2 /\ Canon(t1) = Canon(t2) /\ Canon(t1) \in ListedTools(LoadedDoc)

\* The rules of doc with a pattern that does not compile, as <<i, a>>: the
\* argument a of entry i.
BadPatterns(doc) ==
    { ia \in (1..Len(doc.tool_rules)) \X ArgNames :
        /\ ia[2] \in DOMAIN doc.tool_rules[ia[1]].AllowArgs
        /\ \E k \in 1..Len(doc.tool_rules[ia[1]].AllowArgs[ia[2]]) :
              doc.tool_rules[ia[1]].AllowArgs[ia[2]][k] \in {"[", "("} }

\* The document passes the parse and the required-field checks.
WellFormed(doc) ==
    doc.parses /\ doc.apiVersion # "" /\ doc.kind = "AgentPolicy"

\* The well-formed documents with a pattern that does not compile.
BadPatternDocs == { doc \in Docs : WellFormed(doc) /\ BadPatterns(doc) # {} }

\* C11: Load of a well-formed document with a pattern that does not
\* compile, at any position among its rules and arguments and from any
\* engine state, returns an error, and the error names the tool and the
\* argument of a pattern of the document that does not compile.
C11_BadPatternAbortsLoad ==
    \A doc \in BadPatternDocs, o \in Orders :
            LET r == Load(Engine, doc, o) IN
            /\ r.err # NoErr
            /\ r.err.kind = "regex"
            /\ \E ia \in BadPatterns(doc) :
                  /\ r.err.tool = doc.tool_rules[ia[1]].Tool
                  /\ r.err.arg = ia[2]

\* A Load has returned the pattern error for a rule that is not the first
\* of its document, on an engine that held a policy.
C11_Witness ==
    /\ op = "Load"
    /\ err.kind = "regex"
    /\ err.arg = "y"
    /\ loaded # NilPtr
    /\ DOMAIN toolRules # {}
    /\ \E doc \in BadPatternDocs :
          \E ia \in BadPatterns(doc) : ia[1] > 1 /\ doc.tool_rules[ia[1]].Tool = err.tool

\* The documents that parse and have an empty apiVersion or a kind other
\* than "AgentPolicy".
SchemaViolations ==
    { doc \in Docs : doc.parses /\ (doc.apiVersion = "" \/ doc.kind # "AgentPolicy") }

\* C12: Load of a document that parses and has an empty apiVersion, or a
\* kind other than "AgentPolicy", returns the error of that field and leaves
\* the engine as it was, so IsAllowed, GetPolicyName and GetAllowedTools
\* answer as before.
C12_SchemaRejectsWholesale ==
    /\ \A doc \in SchemaViolations, o \in Orders :
          LET r == Load(Engine, doc, o) IN
          /\ r.err = FieldErr(IF doc.apiVersion = "" THEN "apiVersion" ELSE "kind")
          /\ r.e.allowedSet = allowedSet
          /\ r.e.toolRules = toolRules
          /\ r.e.policy = policy
    /\ \A e2 \in { Load(Engine, doc, o).e : doc \in SchemaViolations, o \in Orders } :
          /\ GetPolicyName(e2) = GetPolicyName(Engine)
          /\ GetAllowedTools(e2) = GetAllowedTools(Engine)
          /\ \A t \in QueryTools, args \in ArgMaps :
                Results(e2, t, args) = Results(Engine, t, args)

\* A Load has returned the kind error on an engine that holds a policy whose
\* tools are not those of the rejected document.
C12_Witness ==
    /\ op = "Load"
    /\ err = FieldErr("kind")
    /\ loaded # NilPtr
    /\ policy = loaded
    /\ allowedSet.elems # {}
    /\ <<"c">> \notin allowedSet.elems

\* C13: a document that loads does so to the same verdicts whether loaded
\* into a new engine, into an engine that holds another state, or a second
\* time in a row into the same engine.
C13_LoadIdempotent ==
    LastLoadOk =>
        LET again == { Load(Engine, LoadedDoc, o) : o \in Orders }
            fresh == { Load(NewEngine, LoadedDoc, o) : o \in Orders }
        IN  /\ \A r \in again \cup fresh : r.err = NoErr
            /\ \A e2 \in { r.e : r \in again \cup fresh } :
                  \A t \in QueryTools, args \in ArgMaps :
                      Results(e2, t, args) = Results(Engine, t, args)

\* A Load has succeeded with a document that lists a tool and has a rule, on
\* an engine that held the same policy already.
C13_Witness ==
    /\ op = "Load"
    /\ LastLoadOk
    /\ LoadedDoc.allowed_tools # <<>>
    /\ \E i \in 1..Len(LoadedDoc.tool_rules) :
          DOMAIN LoadedDoc.tool_rules[i].AllowArgs # {}
    /\ \E o \in Orders : Load(Engine, LoadedDoc, o).e = Engine

DeniedNames(doc) == { Canon(doc.denied_tools[i]) : i \in 1..Len(doc.denied_tools) }

\* C15: the loaded document and each document that differs from it only in
\* denied_tools load to the same results for every call, and a tool listed
\* in allowed_tools and in denied_tools passes the tool-level check, and is
\* allowed with every argument map when no rule constrains it.
C15_DeniedToolsInert ==
    LastLoadOk =>
        /\ \A dt \in DeniedChoices, o \in Orders :
              LET twin == Load(NewEngine, [LoadedDoc EXCEPT !.denied_tools = dt], o)
              IN  /\ twin.err = NoErr
                  /\ \A t \in QueryTools, args \in ArgMaps :
                        Results(twin.e, t, args) = Results(Engine, t, args)
        /\ \A t \in QueryTools, args \in ArgMaps :
              LET n == Canon(t) IN
              (n \in ListedTools(LoadedDoc) /\ n \in DeniedNames(LoadedDoc)) =>
                  /\ Deny \notin Results(Engine, t, args)
                  /\ n \notin RuleTools(LoadedDoc)
                        => Results(Engine, t, args) = {Allow}

\* An IsAllowed has allowed a call under a policy that lists every tool it
\* allows in denied_tools too, one of them in allowed_tools.
C15_Witness ==
    /\ LastLoadOk
    /\ op = "IsAllowed"
    /\ result = Allow
    /\ ListedTools(LoadedDoc) # {}
    /\ DeclaredAllowed(LoadedDoc) \subseteq DeniedNames(LoadedDoc)

\* C16: once a Load has succeeded, GetPolicyName gives the name of the
\* document of the last successful Load and GetAllowedTools gives that
\* document's allowed_tools as declared and in order, whatever a caller has
\* written into the slices returned before, and
\* IsAllowed answers as on an engine that has just loaded the document;
\* before that they give "<no policy>" and the nil slice.
C16_AccessorsAreSnapshots ==
    /\ loaded = NilPtr =>
          /\ GetPolicyName(Engine) = "<no policy>"
          /\ GetAllowedTools(Engine).nil
          /\ GetAllowedTools(Engine).elems = <<>>
    /\ loaded # NilPtr =>
          /\ GetPolicyName(Engine) = LoadedDoc.name
          /\ GetAllowedTools(Engine).elems = LoadedDoc.allowed_tools
    /\ LastLoadOk =>
          \A o \in Orders, t \in QueryTools, args \in ArgMaps :
              Results(Engine, t, args) =
                  Results(Load(NewEngine, LoadedDoc, o).e, t, args)
    /\ op = "GetPolicyName" => result.Name = GetPolicyName(Engine)
    /\ op = "GetAllowedTools" => result.Tools = GetAllowedTools(Engine)

\* A caller has overwritten both entries of the slice GetAllowedTools gave
\* it for the policy "q".
C16_Witness ==
    /\ op = "ModifyReturned"
    /\ LastLoadOk
    /\ LoadedDoc.name = "q"
    /\ result.Tools.elems = << <<"x">>, <<"x">> >>
    /\ GetAllowedTools(Engine).elems = << <<"c">>, <<" ", "A">> >>

\* The text of a value as the specification gives it: a text as it is, a
\* boolean as true or false, an integer in decimal digits, a number with an
\* integral value without a fraction.
Spelled(v) ==
    CASE v.kind = "string" -> v.str
      [] v.kind = "bool" /\ v.b  -> <<"t", "r", "u", "e">>
      [] v.kind = "bool" /\ ~v.b -> <<"f", "a", "l", "s", "e">>
      [] v.n = 100 -> <<"1", "0", "0">>
      [] v.n = 42  -> <<"4", "2">>
      [] v.n = 0   -> <<"0">>
      [] v.n = -7  -> <<"-", "7">>

\* The values the specification gives a text for.
HasSpelling(v) ==
    \/ v.kind \in {"string", "bool", "int"}
    \/ v.kind = "float64" /\ v.str = <<>>

\* C17: argToString gives a text, a boolean, an integer and a float64 of
\* integral value the text the specification gives them, and IsAllowed
\* allows a call on such values exactly when every pattern of the rule
\* matches that text of its argument.
C17_CanonicalText ==
    /\ \A v \in ConvValues : HasSpelling(v) => argToString(v) = Spelled(v)
    /\ <<"c">> \in DOMAIN toolRules =>
          \A args \in ConvArgMaps :
              (\A a \in DOMAIN args : HasSpelling(args[a])) =>
                  \A r \in Results(Engine, <<"c">>, args) :
                      r.Allowed <=>
                          \A a \in DOMAIN toolRules[<<"c">>].AllowArgs :
                              /\ a \in DOMAIN args
                              /\ MatchString(Compile(toolRules[<<"c">>].AllowArgs[a]),
                                             Spelled(args[a]))

\* An IsAllowed has allowed a call under the patterns ^42$ for x and ^true$
\* for y.
C17_Witness ==
    /\ op = "IsAllowed"
    /\ result = Allow
    /\ <<"c">> \in DOMAIN toolRules
    /\ toolRules[<<"c">>].AllowArgs =
          [a \in {"x", "y"} |-> IF a = "x" THEN <<"^", "4", "2", "$">>
                                ELSE <<"^", "t", "r", "u", "e", "$">>]

\* The constrained argument a of the rule fails on args: it is absent, or
\* its text does not match its pattern.
Fails(args, allowArgs, a) ==
    \/ a \notin DOMAIN args
    \/ ~MatchString(Compile(allowArgs[a]), argToString(args[a]))

\* C18: a denial that names an argument names a constrained argument of the
\* rule of the tool asked about, one that is absent or whose text fails its
\* pattern, and its FailedRule is the declared pattern of that argument.
C18_DenialDetailGenuine ==
    \A t \in QueryTools, args \in ArgMaps :
        \A r \in Results(Engine, t, args) :
            (~r.Allowed /\ r.FailedArg # "") =>
                LET n == Canon(t) IN
                /\ n \in DOMAIN toolRules
                /\ r.FailedArg \in DOMAIN toolRules[n].AllowArgs
                /\ Fails(args, toolRules[n].AllowArgs, r.FailedArg)
                /\ r.FailedRule = toolRules[n].AllowArgs[r.FailedArg]

\* An IsAllowed has denied on x with the pattern ^a, on an engine with
\* rules for two tools.
C18_Witness ==
    /\ op = "IsAllowed"
    /\ result = DenyArg("x", P_startA)
    /\ Cardinality(DOMAIN toolRules) = 2

\* C19: for the engine as it stands, a tool name and an argument map, every
\* order of the loop over the constrained arguments gives the same Allowed;
\* the results differ only where two constrained arguments fail, and then
\* only in which of the failing ones they name.
C19_OrderIndependentVerdict ==
    \A t \in QueryTools, args \in ArgMaps :
        LET byOrder == [o \in Orders |-> IsAllowed(Engine, t, args, o)] IN
        \A o1, o2 \in Orders :
            /\ byOrder[o1].Allowed = byOrder[o2].Allowed
            /\ byOrder[o1] # byOrder[o2] =>
                  LET aa == toolRules[Canon(t)].AllowArgs IN
                  /\ byOrder[o1].FailedArg # byOrder[o2].FailedArg
                  /\ Fails(args, aa, byOrder[o1].FailedArg)
                  /\ Fails(args, aa, byOrder[o2].FailedArg)

\* An IsAllowed has denied on y with the pattern $, which every text
\* matches, under a rule that constrains x too: y was absent, and a call
\* where x fails too is denied on x or on y by the order.
C19_Witness ==
    /\ op = "IsAllowed"
    /\ result = DenyArg("y", P_end)
    /\ \E t \in QueryTools, args \in ArgMaps :
          Cardinality(Results(Engine, t, args)) = 2

\* The entries of doc for the tool n, by position.
EntriesFor(doc, n) ==
    { i \in 1..Len(doc.tool_rules) : Canon(doc.tool_rules[i].Tool) = n }

\* C20: after a successful Load of a document with several entries for one
\* normalized tool, IsAllowed allows that tool exactly when the patterns of
\* the last of them are satisfied, whatever the earlier ones declare; and a
\* document with such entries one of whose patterns does not compile does
\* not load.
C20_LastRuleWins ==
    /\ LastLoadOk =>
          \A t \in QueryTools, args \in ArgMaps :
              LET n == Canon(t)
                  at == EntriesFor(LoadedDoc, n)
              IN  Cardinality(at) > 1 =>
                    LET last == LoadedDoc.tool_rules[CHOOSE i \in at : \A j \in at : j <= i]
                    IN  /\ toolRules[n].AllowArgs = last.AllowArgs
                        /\ \A r \in Results(Engine, t, args) :
                              r.Allowed <=> \A a \in DOMAIN last.AllowArgs :
                                                ~Fails(args, last.AllowArgs, a)
    /\ \A doc \in BadPatternDocs, o \in Orders :
          (\E n \in RuleTools(doc) : Cardinality(EntriesFor(doc, n)) > 1)
              => Load(Engine, doc, o).err # NoErr

\* An IsAllowed has allowed a call under a policy whose only tool has a
\* first entry with patterns and a last entry with none.
C20_Witness ==
    /\ LastLoadOk
    /\ op = "IsAllowed"
    /\ result = Allow
    /\ LoadedDoc.allowed_tools = <<>>
    /\ Len(LoadedDoc.tool_rules) = 2
    /\ Cardinality(RuleTools(LoadedDoc)) = 1
    /\ DOMAIN LoadedDoc.tool_rules[1].AllowArgs # {}
    /\ DOMAIN LoadedDoc.tool_rules[2].AllowArgs = {}

\* C21: after a Load has returned nil, allowedSet and toolRules hold the
\* tools of its document and no other, and IsAllowed answers every call as
\* a new engine that has loaded only that document does, whatever loads
\* came before.
C21_ReloadReplacesPolicy ==
    LastLoadOk =>
        /\ allowedSet.elems = DeclaredAllowed(LoadedDoc)
        /\ DOMAIN toolRules = RuleTools(LoadedDoc)
        /\ \A o \in Orders :
              LET only == Load(NewEngine, LoadedDoc, o).e IN
              \A t \in QueryTools, args \in ArgMaps :
                  \A o2 \in Orders :
                      IsAllowed(Engine, t, args, o2) = IsAllowed(only, t, args, o2)

\* A Load has succeeded with a document that has no rule and lists nothing,
\* after a Load that failed on a pattern.
C21_Witness ==
    /\ op = "Load"
    /\ LastLoadOk
    /\ DeclaredAllowed(LoadedDoc) = {}
    /\ \E doc \in BadPatternDocs, o \in Orders :
          /\ Load(Engine, doc, o).e.allowedSet.elems # {}
          /\ Load(Load(Engine, doc, o).e, LoadedDoc, o).e = Engine

\* C23: after a successful Load, a tool that is listed in allowed_tools and
\* is the tool of a rule, under whatever spellings, is allowed exactly when
\* the patterns of its rule are satisfied.
C23_ListingKeepsRules ==
    LastLoadOk =>
        \A t \in QueryTools :
            LET n == Canon(t) IN
            (n \in ListedTools(LoadedDoc) /\ n \in RuleTools(LoadedDoc)) =>
                \A args \in ArgMaps : \A r \in Results(Engine, t, args) :
                    /\ r.Allowed <=>
                          \A a \in DOMAIN DeclaredRule(LoadedDoc, n).AllowArgs :
                              ~Fails(args, DeclaredRule(LoadedDoc, n).AllowArgs, a)
                    /\ ~r.Allowed => r.FailedArg # ""

\* An IsAllowed has denied on x a call of the only tool of a policy that
\* lists it as " A" and has a rule for it as "a".
C23_Witness ==
    /\ LastLoadOk
    /\ op = "IsAllowed"
    /\ result = DenyArg("x", P_startA)
    /\ LoadedDoc.allowed_tools = << <<" ", "A">> >>
    /\ Len(LoadedDoc.tool_rules) = 1
    /\ LoadedDoc.tool_rules[1].Tool = <<"a">>

\* C24: in every state between calls, each name GetAllowedTools returns
\* passes the tool-level check of IsAllowed under every spelling that
\* normalizes to it, and GetPolicyName returns "<no policy>" exactly when no
\* Load has succeeded, in which case IsAllowed allows nothing.
C24_AccessorsMatchDecisions ==
    /\ \A i \in 1..Len(GetAllowedTools(Engine).elems), t \in QueryTools :
          Canon(t) = Canon(GetAllowedTools(Engine).elems[i]) =>
              \A args \in ArgMaps : Deny \notin Results(Engine, t, args)
    /\ GetPolicyName(Engine) = "<no policy>" <=> loaded = NilPtr
    /\ GetPolicyName(Engine) = "<no policy>" =>
          \A t \in QueryTools, args \in ArgMaps :
              \A r \in Results(Engine, t, args) : ~r.Allowed

\* r is a ValidationResult: its three fields, with no argument detail when
\* it allows.
IsValidationResult(r) ==
    /\ DOMAIN r = {"Allowed", "FailedArg", "FailedRule"}
    /\ r.Allowed \in BOOLEAN
    /\ r.FailedArg \in ArgNames \cup {""}
    /\ r.Allowed => (r.FailedArg = "" /\ r.FailedRule = <<>>)

\* C22: in every state of the engine, never loaded, loaded or left by a
\* failed load, IsAllowed returns a ValidationResult for every tool name,
\* the empty and the white-space one included, and every argument map, the
\* nil one and one with a nil value included; the call that has returned
\* has returned one.
C22_IsAllowedTotal ==
    /\ \A t \in CallTools, args \in CallArgMaps, o \in Orders :
          IsValidationResult(IsAllowed(Engine, t, args, o))
    /\ op = "IsAllowed" => IsValidationResult(result)

\* IsAllowed("", nil) has returned on an engine on which no Load has
\* succeeded and the last one failed on a pattern after installing a rule.
C22_Witness ==
    /\ op = "IsAllowed"
    /\ rcall = [tool |-> <<>>, args |-> <<>>]
    /\ IsValidationResult(result)
    /\ loaded = NilPtr
    /\ err.kind = "regex"
    /\ DOMAIN toolRules # {}

\* args without the keys that are not in K.
Restrict(args, K) == [a \in (DOMAIN args) \cap K |-> args[a]]

\* C25: for a tool with a rule, IsAllowed returns on an argument map what
\* it returns on the map cut down to the arguments the rule constrains; the
\* call that has returned has returned that.
C25_ExtraArgsIgnored ==
    /\ \A t \in CallTools, args \in CallArgMaps :
          LET n == Canon(t) IN
          n \in DOMAIN toolRules =>
              Results(Engine, t, args) =
                  Results(Engine, t, Restrict(args, DOMAIN toolRules[n].AllowArgs))
    /\ (op = "IsAllowed" /\ Canon(rcall.tool) \in DOMAIN toolRules) =>
          result \in Results(Engine, rcall.tool,
                             Restrict(rcall.args,
                                      DOMAIN toolRules[Canon(rcall.tool)].AllowArgs))

\* IsAllowed has allowed "b" with x, y and z under a rule that constrains
\* y alone.
C25_Witness ==
    /\ op = "IsAllowed"
    /\ result = Allow
    /\ rcall.tool = <<"b">>
    /\ DOMAIN rcall.args = {"x", "y", "z"}
    /\ <<"b">> \in DOMAIN toolRules
    /\ DOMAIN toolRules[<<"b">>].AllowArgs = {"y"}

\* The text s has the literal text lit at position i.
HasAt(s, lit, i) ==
    /\ i >= 1
    /\ i + Len(lit) - 1 <= Len(s)
    /\ \A k \in 1..Len(lit) : s[i + k - 1] = lit[k]

\* The pattern p of literal characters, with or without ^ and $, accepts
\* the text s as the specification has it: without anchors when s contains
\* the literal text anywhere, with ^ when s starts with it, with $ when s
\* ends with it, with both when s is it.
Accepts(p, s) ==
    LET hasStart == Len(p) > 0 /\ p[1] = "^"
        hasEnd   == Len(p) > 0 /\ p[Len(p)] = "$"
        lit      == SubSeq(p, IF hasStart THEN 2 ELSE 1,
                              IF hasEnd THEN Len(p) - 1 ELSE Len(p))
    IN  CASE hasStart /\ hasEnd  -> s = lit
          [] hasStart /\ ~hasEnd -> HasAt(s, lit, 1)
          [] ~hasStart /\ hasEnd -> HasAt(s, lit, Len(s) - Len(lit) + 1)
          [] OTHER -> \E i \in 1..(Len(s) + 1) : HasAt(s, lit, i)

\* C26: a call whose constrained arguments are all present with text
\* values is allowed exactly when each pattern accepts its text, a pattern
\* without anchors accepting every text that contains a match anywhere.
C26_MatchingUnanchored ==
    \A t \in CallTools, args \in CallArgMaps :
        LET n == Canon(t) IN
        (/\ n \in DOMAIN toolRules
         /\ DOMAIN toolRules[n].AllowArgs # {}
         /\ \A a \in DOMAIN toolRules[n].AllowArgs :
               a \in DOMAIN args /\ args[a].kind = "string") =>
            \A r \in Results(Engine, t, args) :
                r.Allowed <=>
                    \A a \in DOMAIN toolRules[n].AllowArgs :
                        Accepts(toolRules[n].AllowArgs[a], args[a].str)

\* IsAllowed has allowed "c" with x = "bab" under the pattern a.
C26_Witness ==
    /\ op = "IsAllowed"
    /\ result = Allow
    /\ rcall = [tool |-> <<"c">>, args |-> [a \in {"x"} |-> StrVal(<<"b", "a", "b">>)]]
    /\ <<"c">> \in DOMAIN toolRules
    /\ toolRules[<<"c">>].AllowArgs = [a \in {"x"} |-> <<"a">>]

====
